---- MODULE Spec2Model ----
(***************************************************************************)
(* Contra-matching pipeline of contra-youtube-recommender: the Distance    *)
(* Engine (embeddings/distance.py), the Embedding Cache                    *)
(* (embeddings/encoder.py) and the Contra Selector with its sample cache   *)
(* (contra/algorithm.py, youtube/sampler.py, youtube/api_client.py).       *)
(*                                                                         *)
(* Floating point is modelled in fixed point: vector components in units   *)
(* of 1/VScale, norms in units of 1/NScale, cosine similarity and cosine   *)
(* distance in units of 1/SimScale, angles in units of 1/AngScale degree.  *)
(* Candidate indices are the 1-based positions of the candidates (Python   *)
(* enumerates them from 0).                                                *)
(***************************************************************************)
EXTENDS Integers, Sequences, FiniteSets, TLC

VARIABLES
  query_embeddings,      \* find_*: the query vectors of the call
  candidate_embeddings,  \* find_*: the candidate vectors of the call
  k,                     \* find_*: number of results asked for
  min_distance,          \* threshold of the diametric method (SimScale units)
  min_angle,             \* threshold of the diametric method (AngScale units)
  rankOp,                \* "none" | "diametric" | "centroid": ranking that ran
  rankError,             \* TRUE when that ranking raised
  contra_results,        \* its returned list of <<index, distance, angle>>
  cache,                 \* EmbeddingCache.cache: key -> embedding
  embedCalls,            \* per text: calls of VideoEmbedder.embed_text
  modelCalls,            \* per text: calls of SentenceTransformer.encode
  firstReturn,           \* per text: what the first embed_text(text) returned
  lastEmbed,             \* the last call of the CachedVideoEmbedder
  files,                 \* cache_dir: sample size -> persisted pool
  deleted,               \* sample sizes whose artifact a consumer has removed
  req                    \* the call of the ContraFeedGenerator in progress,
                         \* or the last one made, with what it did

embedVars == <<cache, embedCalls, modelCalls, firstReturn, lastEmbed>>

pipeVars == <<files, deleted, req>>

vars == <<query_embeddings, candidate_embeddings, k, min_distance, min_angle,
          rankOp, rankError, contra_results,
          cache, embedCalls, modelCalls, firstReturn, lastEmbed, files, deleted, req>>

rankVars == <<query_embeddings, candidate_embeddings, k, min_distance,
              min_angle, rankOp, rankError, contra_results>>

----------------------------------------------------------------------------
(* Bounds of the model *)

MaxQueries == 2

MaxCands == 2

MaxK == 2

MaxBatch == 2

----------------------------------------------------------------------------
(* Fixed-point representation *)

Dim == 2

VScale == 6

NScale == 100

SimScale == 1000

AngScale == 100

\* cos(d degrees) * SimScale for d = 0..180, at index d + 1
CosTab ==
   <<
      1000, 1000, 999, 999, 998, 996, 995, 993, 990, 988, 985, 982,
      978, 974, 970, 966, 961, 956, 951, 946, 940, 934, 927, 921,
      914, 906, 899, 891, 883, 875, 866, 857, 848, 839, 829, 819,
      809, 799, 788, 777, 766, 755, 743, 731, 719, 707, 695, 682,
      669, 656, 643, 629, 616, 602, 588, 574, 559, 545, 530, 515,
      500, 485, 469, 454, 438, 423, 407, 391, 375, 358, 342, 326,
      309, 292, 276, 259, 242, 225, 208, 191, 174, 156, 139, 122,
      105, 87, 70, 52, 35, 17, 0, -17, -35, -52, -70, -87,
      -105, -122, -139, -156, -174, -191, -208, -225, -242, -259, -276, -292,
      -309, -326, -342, -358, -375, -391, -407, -423, -438, -454, -469, -485,
      -500, -515, -530, -545, -559, -574, -588, -602, -616, -629, -643, -656,
      -669, -682, -695, -707, -719, -731, -743, -755, -766, -777, -788, -799,
      -809, -819, -829, -839, -848, -857, -866, -875, -883, -891, -899, -906,
      -914, -921, -927, -934, -940, -946, -951, -956, -961, -966, -970, -974,
      -978, -982, -985, -988, -990, -993, -995, -996, -998, -999, -999, -1000,
      -1000
   >>

RoundDiv(n, d) ==
  IF n >= 0 THEN (2 * n + d) \div (2 * d) ELSE -((2 * (-n) + d) \div (2 * d))

ISqrt(n) ==
  CHOOSE r \in 0..(2 * VScale * NScale) : r * r <= n /\ (r + 1) * (r + 1) > n

RECURSIVE SeqSum(_)
SeqSum(s) == IF s = <<>> THEN 0 ELSE s[1] + SeqSum(Tail(s))

Dot(a, b) == SeqSum([i \in 1..Len(a) |-> a[i] * b[i]])

MaxNormSq == Dim * VScale * VScale

NormTable == [n \in 0..MaxNormSq |-> ISqrt(n * NScale * NScale)]

\* np.linalg.norm
Norm(a) == NormTable[Dot(a, a)]

\* np.degrees(np.arccos(s)) to the nearest degree, for s in [-1, 1]
ArccosTable ==
  [s \in (-SimScale)..SimScale |->
     LET acute(c) == Cardinality({d \in 1..90 : 2 * c < CosTab[d] + CosTab[d + 1]})
     IN  IF s >= 0 THEN acute(s) ELSE 180 - acute(-s)]

\* np.clip
Clip(x, lo, hi) == IF x < lo THEN lo ELSE IF x > hi THEN hi ELSE x

\* np.mean of a non-empty list of scalars
Mean(s) == RoundDiv(SeqSum(s), Len(s))

\* np.min of a non-empty list of scalars
MinOf(s) == CHOOSE x \in {s[i] : i \in 1..Len(s)} :
              \A j \in 1..Len(s) : x <= s[j]

\* np.zeros(embedding_dimension)
ZeroVec == [d \in 1..Dim |-> 0]

\* all sequences over S of length at most n
RECURSIVE SeqsUpTo(_, _)
SeqsUpTo(S, n) ==
  IF n = 0 THEN {<<>>}
  ELSE LET shorter == SeqsUpTo(S, n - 1)
       IN  shorter \cup {Append(s, x) : s \in {t \in shorter : Len(t) = n - 1},
                                         x \in S}

----------------------------------------------------------------------------
(* Distance Engine: embeddings/distance.py *)

\* mutant of cosine_similarity: no test of the norms; the quotient 0 / 0 of
\* two numpy floats is not a number, written as a value outside [-1, 1]
cosine_similarity_unguarded(embedding1, embedding2) ==
  LET norm1 == Norm(embedding1)
      norm2 == Norm(embedding2)
  IN  IF norm1 = 0 \/ norm2 = 0
        THEN 2 * SimScale
        ELSE RoundDiv(Dot(embedding1, embedding2) * SimScale * NScale * NScale,
                      norm1 * norm2)

cosine_similarity(embedding1, embedding2) ==
  LET norm1 == Norm(embedding1)
      norm2 == Norm(embedding2)
  IN  IF norm1 = 0 \/ norm2 = 0
        THEN 0
        ELSE RoundDiv(Dot(embedding1, embedding2) * SimScale * NScale * NScale,
                      norm1 * norm2)

cosine_distance(embedding1, embedding2) ==
  SimScale - cosine_similarity(embedding1, embedding2)

angle_between_vectors(embedding1, embedding2) ==
  LET similarity == Clip(cosine_similarity(embedding1, embedding2),
                         -SimScale, SimScale)
  IN  ArccosTable[similarity] * AngScale

\* float(np.linalg.norm(embedding1 - embedding2)), in units of 1/NScale of a
\* component unit
euclidean_distance(embedding1, embedding2) ==
  LET diff == [i \in 1..Len(embedding1) |-> embedding1[i] - embedding2[i]]
      sq   == Dot(diff, diff) * NScale * NScale
  IN  CHOOSE r \in 0..(4 * VScale * NScale) :
        r * r <= sq /\ (r + 1) * (r + 1) > sq

\* np.dot of two one-dimensional arrays is defined for equal lengths only
DotAligned(a, b) == Len(a) = Len(b)

\* embedding1 - embedding2 is defined when the lengths are equal or one of
\* them is 1 (numpy broadcasting)
Broadcastable(a, b) == Len(a) = Len(b) \/ Len(a) = 1 \/ Len(b) = 1

\* a one-component array stretched to n components
BroadcastTo(a, n) == IF Len(a) = n THEN a ELSE [i \in 1..n |-> a[1]]

\* the ValueError of np.dot in cosine_similarity (line 34), reached only when
\* neither norm is 0 (lines 31-32)
cosine_similarity_raises(embedding1, embedding2) ==
  /\ Norm(embedding1) # 0
  /\ Norm(embedding2) # 0
  /\ ~DotAligned(embedding1, embedding2)

\* the four two-operand operations of DistanceCalculator on operands of any
\* dimensions: [error, value]
DistanceCalculator(operation, embedding1, embedding2) ==
  LET n == IF Len(embedding1) > Len(embedding2) THEN Len(embedding1)
           ELSE Len(embedding2)
  IN  IF operation = "euclidean_distance"
        THEN IF Broadcastable(embedding1, embedding2)
               THEN [error |-> FALSE,
                     value |-> euclidean_distance(BroadcastTo(embedding1, n),
                                                  BroadcastTo(embedding2, n))]
               ELSE [error |-> TRUE]
      ELSE IF cosine_similarity_raises(embedding1, embedding2)
        THEN [error |-> TRUE]
      ELSE [error |-> FALSE,
            value |-> CASE operation = "cosine_similarity" ->
                             cosine_similarity(embedding1, embedding2)
                        [] operation = "cosine_distance" ->
                             cosine_distance(embedding1, embedding2)
                        [] operation = "angle_between_vectors" ->
                             angle_between_vectors(embedding1, embedding2)]

\* Python's lexicographic comparison k1 > k2 of two equal-length tuples
LexGreater(k1, k2) ==
  \E i \in 1..Len(k1) : k1[i] > k2[i] /\ \A j \in 1..(i - 1) : k1[j] = k2[j]

\* mutant of SortReverse: among equal keys the later item comes first
RECURSIVE SortReverseTiesReversed(_)
SortReverseTiesReversed(pairs) ==
  IF pairs = <<>> THEN <<>>
  ELSE LET n    == Len(pairs)
           rest == SortReverseTiesReversed(SubSeq(pairs, 1, n - 1))
           x    == pairs[n]
           p    == Cardinality({i \in 1..Len(rest) :
                                  LexGreater(rest[i].key, x.key)})
       IN  SubSeq(rest, 1, p) \o <<x>> \o SubSeq(rest, p + 1, Len(rest))

\* list.sort(key=..., reverse=True): a stable sort, descending by key.
\* pairs is a sequence of records [item, key].
RECURSIVE SortReverse(_)
SortReverse(pairs) ==
  IF pairs = <<>> THEN <<>>
  ELSE LET n    == Len(pairs)
           rest == SortReverse(SubSeq(pairs, 1, n - 1))
           x    == pairs[n]
           p    == Cardinality({i \in 1..Len(rest) :
                                  ~LexGreater(x.key, rest[i].key)})
       IN  SubSeq(rest, 1, p) \o <<x>> \o SubSeq(rest, p + 1, Len(rest))

Items(pairs) == [i \in 1..Len(pairs) |-> pairs[i].item]

\* s[:n] for n >= 0
Prefix(s, n) == SubSeq(s, 1, IF n < Len(s) THEN n ELSE Len(s))

\* distances / angles of one candidate to each query (distance.py 204-209)
Distances(queries, candidate) ==
  [q \in 1..Len(queries) |-> cosine_distance(queries[q], candidate)]

Angles(queries, candidate) ==
  [q \in 1..Len(queries) |-> angle_between_vectors(queries[q], candidate)]

\* mutant of IsContra: gates the average distance, not the minimum
IsContraOnAverage(queries, candidate, minDist, minAng) ==
  /\ Mean(Distances(queries, candidate)) >= minDist
  /\ Mean(Angles(queries, candidate)) >= minAng

\* mutant of IsContra: one of the two gates is enough
IsContraEither(queries, candidate, minDist, minAng) ==
  \/ MinOf(Distances(queries, candidate)) >= minDist
  \/ Mean(Angles(queries, candidate)) >= minAng

\* the gate of line 218
IsContra(queries, candidate, minDist, minAng) ==
  /\ MinOf(Distances(queries, candidate)) >= minDist
  /\ Mean(Angles(queries, candidate)) >= minAng

\* mutant of DiametricKey: the angle alone, without the distance tie-break
DiametricKeyAngleOnly(x) == <<x[3]>>

\* the sort key of line 222: (x[2], x[1]) = (avg_angle, avg_distance)
DiametricKey(x) == <<x[3], x[2]>>

\* mutant of find_diametrically_opposite: fills the result up to k with
\* candidates that fail a gate
find_diametrically_opposite_padded(queries, candidates, kk, minDist, minAng) ==
  IF candidates # <<>> /\ queries = <<>>
    THEN [error |-> TRUE, value |-> <<>>]
    ELSE
      LET scored == [i \in 1..Len(candidates) |->
                       <<i, Mean(Distances(queries, candidates[i])),
                            Mean(Angles(queries, candidates[i]))>>]
          kept   == SelectSeq(scored,
                      LAMBDA x : IsContra(queries, candidates[x[1]],
                                          minDist, minAng))
          others == SelectSeq(scored,
                      LAMBDA x : ~IsContra(queries, candidates[x[1]],
                                           minDist, minAng))
          sorted == SortReverse([i \in 1..Len(kept) |->
                      [item |-> kept[i], key |-> DiametricKey(kept[i])]])
      IN  [error |-> FALSE, value |-> Prefix(Items(sorted) \o others, kk)]

\* mutant of find_diametrically_opposite: without queries no candidate is
\* scored and the result is empty
find_diametrically_opposite_lenient(queries, candidates, kk, minDist, minAng) ==
  IF queries = <<>>
    THEN [error |-> FALSE, value |-> <<>>]
    ELSE
      LET scored == [i \in 1..Len(candidates) |->
                       <<i, Mean(Distances(queries, candidates[i])),
                            Mean(Angles(queries, candidates[i]))>>]
          kept   == SelectSeq(scored,
                      LAMBDA x : IsContra(queries, candidates[x[1]],
                                          minDist, minAng))
          sorted == SortReverse([i \in 1..Len(kept) |->
                      [item |-> kept[i], key |-> DiametricKey(kept[i])]])
      IN  [error |-> FALSE, value |-> Prefix(Items(sorted), kk)]

\* Result of a call: [error |-> raised?, value |-> returned list]
find_diametrically_opposite(queries, candidates, kk, minDist, minAng) ==
  IF candidates # <<>> /\ queries = <<>>
    THEN [error |-> TRUE, value |-> <<>>]   \* np.min of an empty list raises
    ELSE
      LET scored == [i \in 1..Len(candidates) |->
                       <<i, Mean(Distances(queries, candidates[i])),
                            Mean(Angles(queries, candidates[i]))>>]
          kept   == SelectSeq(scored,
                      LAMBDA x : IsContra(queries, candidates[x[1]],
                                          minDist, minAng))
          sorted == SortReverse([i \in 1..Len(kept) |->
                      [item |-> kept[i], key |-> DiametricKey(kept[i])]])
      IN  [error |-> FALSE, value |-> Prefix(Items(sorted), kk)]

\* np.mean(embeddings, axis=0) of a non-empty array
calculate_centroid(embeddings) ==
  [d \in 1..Dim |->
     RoundDiv(SeqSum([i \in 1..Len(embeddings) |-> embeddings[i][d]]),
              Len(embeddings))]

\* mutant of CentroidKey: ascending instead of descending
CentroidKeyAscending(x) == <<-x[3]>>

\* the sort key of line 270: x[2] = angle
CentroidKey(x) == <<x[3]>>

\* mutant of find_opposite_to_centroid: applies the default angle threshold
find_opposite_to_centroid_gated(queries, candidates, kk) ==
  IF candidates # <<>> /\ queries = <<>>
    THEN [error |-> TRUE, value |-> <<>>]
    ELSE
      LET centroid == calculate_centroid(queries)
          results  == [i \in 1..Len(candidates) |->
                         <<i, cosine_distance(centroid, candidates[i]),
                              angle_between_vectors(centroid, candidates[i])>>]
          gated    == SelectSeq(results, LAMBDA x : x[3] >= 150 * AngScale)
          sorted   == SortReverse([i \in 1..Len(gated) |->
                        [item |-> gated[i], key |-> CentroidKey(gated[i])]])
      IN  [error |-> FALSE, value |-> Prefix(Items(sorted), kk)]

find_opposite_to_centroid(queries, candidates, kk) ==
  IF candidates # <<>> /\ queries = <<>>
    THEN [error |-> TRUE, value |-> <<>>]   \* the centroid of nothing is nan
    ELSE
      LET centroid == calculate_centroid(queries)
          results  == [i \in 1..Len(candidates) |->
                         <<i, cosine_distance(centroid, candidates[i]),
                              angle_between_vectors(centroid, candidates[i])>>]
          sorted   == SortReverse([i \in 1..Len(results) |->
                        [item |-> results[i], key |-> CentroidKey(results[i])]])
      IN  [error |-> FALSE, value |-> Prefix(Items(sorted), kk)]

----------------------------------------------------------------------------
(* Embedder and Embedding Cache: embeddings/encoder.py *)

\* The texts of the model: empty, whitespace only, an ordinary text, and a
\* text that reads like the cache key of video "a".
Texts == {"", " ", "x", "video:a"}

\* those and the texts of the catalogue's videos
AllTexts == Texts \cup {"y"}

VideoIds == {"a", "b"}

\* str.strip()
Strip(text) == IF text = " " THEN "" ELSE text

\* SentenceTransformer.encode: a fixed vector per text, never the zero vector
Encode(text) ==
  CASE text = "x"       -> <<VScale, 0>>
    [] text = "y"       -> <<-VScale, 0>>
    [] text = "video:a" -> <<-VScale, -VScale>>
    [] OTHER            -> <<0, VScale>>

\* mutant of CacheSet: the cache keeps the newest entry only
CacheSetEvicting(c, key, embedding) == [x \in {key} |-> embedding]

\* EmbeddingCache.has / get / set
CacheHas(c, key) == key \in DOMAIN c

CacheGet(c, key) == c[key]

CacheSet(c, key, embedding) ==
  [x \in DOMAIN c \cup {key} |-> IF x = key THEN embedding ELSE c[x]]

\* f"video:{video_id}"
cache_key(video_id) == "video:" \o video_id

\* State of one CachedVideoEmbedder: [cache, embedCalls, modelCalls].
\* VideoEmbedder.embed_text: the zero vector for blank text, else the model.
VideoEmbedder_embed_text(es, text) ==
  LET blank == text = "" \/ Strip(text) = ""
  IN  [es    |-> [cache      |-> es.cache,
                  embedCalls |-> [es.embedCalls EXCEPT ![text] = @ + 1],
                  modelCalls |-> IF blank THEN es.modelCalls
                                 ELSE [es.modelCalls EXCEPT ![text] = @ + 1]],
       value |-> IF blank THEN ZeroVec ELSE Encode(text)]

\* CachedVideoEmbedder.embed_text
embed_text(es, text) ==
  IF CacheHas(es.cache, text)
    THEN [es |-> es, value |-> CacheGet(es.cache, text)]
    ELSE LET r == VideoEmbedder_embed_text(es, text)
         IN  [es    |-> [r.es EXCEPT !.cache = CacheSet(@, text, r.value)],
              value |-> r.value]

\* mutant of embed_videos_step: on a miss of the video-id key it calls the
\* Embedder itself instead of the caching embed_text
embed_videos_step_uncached(es, video) ==
  LET text == video.embedding_text
      key  == cache_key(video.video_id)
  IN  IF CacheHas(es.cache, key)
        THEN [es |-> es, value |-> CacheGet(es.cache, key)]
        ELSE LET r == VideoEmbedder_embed_text(es, text)
             IN  [es    |-> [r.es EXCEPT !.cache = CacheSet(@, key, r.value)],
                  value |-> r.value]

\* mutant of embed_videos_step: never looks the video-id key up
embed_videos_step_nolookup(es, video) ==
  LET r == embed_text(es, video.embedding_text)
  IN  [es    |-> [r.es EXCEPT
                    !.cache = CacheSet(@, cache_key(video.video_id), r.value)],
       value |-> r.value]

\* One iteration of the loop of CachedVideoEmbedder.embed_videos (lines
\* 151-164): [es, value], value the embedding appended for this video.
embed_videos_step(es, video) ==
  LET video_id == video.video_id
      text     == video.embedding_text
      key      == cache_key(video_id)
  IN  IF CacheHas(es.cache, key)
        THEN [es |-> es, value |-> CacheGet(es.cache, key)]
        ELSE LET r == embed_text(es, text)
             IN  [es    |-> [r.es EXCEPT !.cache = CacheSet(@, key, r.value)],
                  value |-> r.value]

\* CachedVideoEmbedder.embed_videos: [es, value], value[i] the embedding of
\* videos_metadata[i]
RECURSIVE embed_videos(_, _)
embed_videos(es, videos_metadata) ==
  IF videos_metadata = <<>>
    THEN [es |-> es, value |-> <<>>]
    ELSE LET n    == Len(videos_metadata)
             head == embed_videos(es, SubSeq(videos_metadata, 1, n - 1))
             step == embed_videos_step(head.es, videos_metadata[n])
         IN  [es |-> step.es, value |-> Append(head.value, step.value)]

EmbedderState == [cache |-> cache, embedCalls |-> embedCalls,
                  modelCalls |-> modelCalls]

Records == [video_id : VideoIds, embedding_text : Texts]

NoCall == [op |-> "none"]

EmbedInit ==
  /\ cache = <<>>
  /\ embedCalls = [t \in AllTexts |-> 0]
  /\ modelCalls = [t \in AllTexts |-> 0]
  /\ firstReturn = <<>>
  /\ lastEmbed = NoCall

\* a caller calls embedder.embed_text(text)
CallEmbedText(text) ==
  LET r == embed_text(EmbedderState, text)
  IN  /\ cache' = r.es.cache
      /\ embedCalls' = r.es.embedCalls
      /\ modelCalls' = r.es.modelCalls
      /\ firstReturn' = IF text \in DOMAIN firstReturn THEN firstReturn
                        ELSE CacheSet(firstReturn, text, r.value)
      /\ lastEmbed' = [op |-> "embed_text", text |-> text, value |-> r.value]
      /\ UNCHANGED <<rankVars, pipeVars>>

\* a caller calls embedder.embed_videos(videos_metadata): the call starts
\* with an empty result list (lines 149-150) ...
CallEmbedVideos ==
  /\ UNCHANGED <<cache, embedCalls, modelCalls, firstReturn>>
  /\ UNCHANGED <<rankVars, pipeVars>>
  /\ lastEmbed' = [op |-> "embed_videos", videos |-> <<>>,
                   value |-> <<>>, trace |-> <<>>]

\* ... and handles one more record of videos_metadata per iteration of its
\* loop (lines 151-164); after every iteration the state is that of the call
\* on the records handled so far.  trace[i] records what iteration i met and
\* did: whether the video-id key and the raw-text key were cached when it
\* began, and whether it called the Embedder.
EmbedVideosLoop(video) ==
  /\ lastEmbed.op = "embed_videos"
  /\ Len(lastEmbed.videos) < MaxBatch
  /\ UNCHANGED <<rankVars, pipeVars>>
  /\ LET r == embed_videos_step(EmbedderState, video)
     IN  /\ cache' = r.es.cache
         /\ embedCalls' = r.es.embedCalls
         /\ modelCalls' = r.es.modelCalls
         /\ UNCHANGED firstReturn
         /\ lastEmbed' =
              [op     |-> "embed_videos",
               videos |-> Append(lastEmbed.videos, video),
               value  |-> Append(lastEmbed.value, r.value),
               trace  |-> Append(lastEmbed.trace,
                   [keyHit   |-> CacheHas(cache, cache_key(video.video_id)),
                    textHit  |-> CacheHas(cache, video.embedding_text),
                    computed |-> r.es.embedCalls # embedCalls])]

EmbedNext ==
  \/ \E text \in Texts : CallEmbedText(text)
  \/ CallEmbedVideos
  \/ \E video \in Records : EmbedVideosLoop(video)

----------------------------------------------------------------------------
(* Inputs of the ranking functions *)

\* query vectors: zero, east, north
QueryVectors == {ZeroVec, <<VScale, 0>>, <<0, VScale>>}

\* candidate vectors: the query vectors, west, south-west and south-east
CandVectors ==
  QueryVectors \cup {<<-VScale, 0>>, <<-VScale, -VScale>>, <<VScale, -VScale>>}

\* (min_distance, min_angle): the defaults 0.7 / 150 degrees, and thresholds
\* that lie exactly on values the engine produces (1.0, 90 degrees)
Thresholds ==
  { <<7 * (SimScale \div 10), 150 * AngScale>>,
    <<SimScale, 90 * AngScale>> }

RankInit ==
  /\ query_embeddings \in SeqsUpTo(QueryVectors, MaxQueries)
  /\ candidate_embeddings \in SeqsUpTo(CandVectors, MaxCands)
  /\ k \in 1..MaxK
  /\ \E t \in Thresholds : min_distance = t[1] /\ min_angle = t[2]
  /\ rankOp = "none"
  /\ rankError = FALSE
  /\ contra_results = <<>>

CallFindDiametricallyOpposite ==
  /\ rankOp = "none"
  /\ LET r == find_diametrically_opposite(query_embeddings,
                candidate_embeddings, k, min_distance, min_angle)
     IN  /\ rankOp' = "diametric"
         /\ rankError' = r.error
         /\ contra_results' = r.value
  /\ UNCHANGED <<query_embeddings, candidate_embeddings, k, min_distance,
                 min_angle>>
  /\ UNCHANGED <<embedVars, pipeVars>>

CallFindOppositeToCentroid ==
  /\ rankOp = "none"
  /\ LET r == find_opposite_to_centroid(query_embeddings,
                candidate_embeddings, k)
     IN  /\ rankOp' = "centroid"
         /\ rankError' = r.error
         /\ contra_results' = r.value
  /\ UNCHANGED <<query_embeddings, candidate_embeddings, k, min_distance,
                 min_angle>>
  /\ UNCHANGED <<embedVars, pipeVars>>

RankNext ==
  \/ CallFindDiametricallyOpposite
  \/ CallFindOppositeToCentroid

\* no ranking call has been made
RankIdle ==
  /\ query_embeddings = <<>>
  /\ candidate_embeddings = <<>>
  /\ k = 1
  /\ min_distance = 7 * (SimScale \div 10)
  /\ min_angle = 150 * AngScale
  /\ rankOp = "none"
  /\ rankError = FALSE
  /\ contra_results = <<>>

----------------------------------------------------------------------------
(* Metadata Provider: youtube/api_client.py, youtube/metadata.py *)

\* the videos that exist, and an id without metadata
CatalogIds == {"a", "b"}

MissingIds == {"m"}

\* MetadataProcessor.extract_text_for_embedding of the metadata of a video
CatalogText(video_id) == IF video_id = "a" THEN "x" ELSE "y"

\* the ids of a list, each once, in the order of their first occurrence
RECURSIVE Unique(_)
Unique(ids) ==
  IF ids = <<>> THEN <<>>
  ELSE LET n    == Len(ids)
           head == Unique(SubSeq(ids, 1, n - 1))
       IN  IF \E i \in 1..Len(head) : head[i] = ids[n] THEN head
           ELSE Append(head, ids[n])

\* mutant of get_videos_metadata: a requested video without metadata gets a
\* record with an empty text
get_videos_metadata_placeholder(video_ids, ok) ==
  LET found == Unique(video_ids)
  IN  [calls |-> IF video_ids = <<>> THEN 0 ELSE 1,
       value |-> IF ok
                   THEN [i \in 1..Len(found) |->
                           [video_id |-> found[i],
                            embedding_text |-> IF found[i] \in CatalogIds
                                                 THEN CatalogText(found[i])
                                                 ELSE ""]]
                   ELSE <<>>]

\* YouTubeAPIClient.get_videos_metadata followed by
\* MetadataProcessor.batch_enrich_metadata: one record per requested video
\* that exists, nothing when the request of the batch fails (ok = FALSE);
\* calls is the number of requests sent.  The lists of the model fit in one
\* batch of 50.
get_videos_metadata(video_ids, ok) ==
  LET found == SelectSeq(Unique(video_ids), LAMBDA v : v \in CatalogIds)
  IN  [calls |-> IF video_ids = <<>> THEN 0 ELSE 1,
       value |-> IF ok
                   THEN [i \in 1..Len(found) |->
                           [video_id |-> found[i],
                            embedding_text |-> CatalogText(found[i])]]
                   ELSE <<>>]

\* What the provider answers during one call of the generator: which of the
\* searches fail, the videos every other search finds, the order in which
\* list(video_ids) enumerates the set, and whether its metadata requests
\* succeed.
FailurePatterns == {"none", "first", "rest", "all"}

Fails(pattern, i) ==
  \/ pattern = "all"
  \/ pattern = "first" /\ i = 1
  \/ pattern = "rest" /\ i > 1

\* the two enumerations of the catalogue
Orders == {<<"a", "b">>, <<"b", "a">>}

\* the searches that fail find nothing, so they all find the same as long as
\* a world where some fail finds the whole catalogue; the order of a set of
\* fewer than two videos is one order
Worlds ==
  {w \in [pattern : FailurePatterns, ids : SUBSET CatalogIds, order : Orders,
          metadata_ok : BOOLEAN] :
     /\ w.pattern = "none" \/ w.ids = CatalogIds
     /\ w.order = <<"a", "b">> \/ (w.ids = CatalogIds /\ w.pattern # "all")}

\* a call that has nothing to search for
QuietWorlds ==
  {w \in Worlds : w.pattern = "none" /\ w.ids = {}}

\* YouTubeAPIClient.search_videos, the i-th search of a call: [] on an error
search_videos(w, i) == IF Fails(w.pattern, i) THEN {} ELSE w.ids

\* mutant of ListOf: the ids are listed once for each of two searches
ListOfRepeated(video_ids, order) ==
  SelectSeq(order, LAMBDA v : v \in video_ids)
    \o SelectSeq(order, LAMBDA v : v \in video_ids)

\* list(video_ids)
ListOf(video_ids, order) == SelectSeq(order, LAMBDA v : v \in video_ids)

----------------------------------------------------------------------------
(* Candidate Sampler: youtube/sampler.py *)

\* the loops of sample_videos_by_prefix (74-85) and of sample_videos_hybrid
\* (161-163): n searches, numbered from first; [video_ids, calls]
\* mutant of SearchLoop: the loop ends at the first search that fails
RECURSIVE SearchLoopAborting(_, _, _)
SearchLoopAborting(w, first, n) ==
  IF n = 0 THEN [video_ids |-> {}, calls |-> 0]
  ELSE LET before == SearchLoopAborting(w, first, n - 1)
       IN  IF before.calls < n - 1 \/ Fails(w.pattern, first + n - 1)
             THEN before
             ELSE [video_ids |-> before.video_ids
                                   \cup search_videos(w, first + n - 1),
                   calls     |-> before.calls + 1]

RECURSIVE SearchLoop(_, _, _)
SearchLoop(w, first, n) ==
  IF n = 0 THEN [video_ids |-> {}, calls |-> 0]
  ELSE LET before == SearchLoop(w, first, n - 1)
       IN  [video_ids |-> before.video_ids \cup search_videos(w, first + n - 1),
            calls     |-> before.calls + 1]

\* max_results of the prefix searches (line 81)
PrefixMaxResults == 10

\* max_results of the category searches (line 162)
CategoryMaxResults == 20

\* max_results lists the max_results of the searches issued, in order
sample_videos_by_prefix(w, num_prefixes) ==
  LET loop == SearchLoop(w, 1, num_prefixes)
  IN  [video_ids   |-> loop.video_ids,
       calls       |-> loop.calls,
       max_results |-> [i \in 1..loop.calls |-> PrefixMaxResults]]

\* the length of the category list of sample_videos_hybrid
NumCategories == 12

sample_videos_hybrid(w, num_prefixes) ==
  LET prefix_videos   == sample_videos_by_prefix(w, num_prefixes)
      category_videos == SearchLoop(w, prefix_videos.calls + 1, NumCategories)
  IN  [video_ids |-> prefix_videos.video_ids \cup category_videos.video_ids,
       calls     |-> prefix_videos.calls + category_videos.calls,
       max_results |-> prefix_videos.max_results
                         \o [i \in 1..category_videos.calls |->
                               CategoryMaxResults],
       \* sample_videos_by_random_ids is not called (lines 146-153)
       probes    |-> 0]

\* num_prefixes = target_size // 7
PrefixDivisor == 7

\* mutant of get_diverse_sample: the number of prefixes is rounded up
get_diverse_sample_rounded_up(w, target_size) ==
  sample_videos_hybrid(w, (target_size + PrefixDivisor - 1) \div PrefixDivisor)

get_diverse_sample(w, target_size) ==
  sample_videos_hybrid(w, target_size \div PrefixDivisor)

----------------------------------------------------------------------------
(* Contra Selector: contra/algorithm.py *)

Sizes == {1, 7}

Methods == {"diametric", "centroid", "average"}

InputLists == {<<>>, <<"a">>, <<"m">>, <<"m", "a">>}

\* json.dump and json.load of a pool
json_dump(pool) ==
  [i \in 1..Len(pool) |-> <<pool[i].video_id, pool[i].embedding_text>>]

json_load(text) ==
  [i \in 1..Len(text) |-> [video_id |-> text[i][1], embedding_text |-> text[i][2]]]

\* cache_file.exists() of f"random_sample_{sample_size}.json"
CacheFileExists(fs, sample_size) == sample_size \in DOMAIN fs

WriteCacheFile(fs, sample_size, text) ==
  [x \in DOMAIN fs \cup {sample_size} |-> IF x = sample_size THEN text ELSE fs[x]]

\* the test of line 79
UseCachedSample(fs, use_cache, sample_size) ==
  use_cache /\ CacheFileExists(fs, sample_size)

\* mutant of get_or_create_random_sample: samples before it looks at the cache
get_or_create_random_sample_resample(fs, sample_size, use_cache, w) ==
  LET sample          == get_diverse_sample(w, sample_size)
      video_ids       == ListOf(sample.video_ids, w.order)
      videos_metadata == get_videos_metadata(video_ids, w.metadata_ok)
  IN  IF UseCachedSample(fs, use_cache, sample_size)
        THEN [files |-> fs, value |-> json_load(fs[sample_size]),
              video_ids |-> video_ids,
              searchCalls |-> sample.calls, searches |-> sample.max_results,
              probes |-> sample.probes,
              metadataCalls |-> videos_metadata.calls]
        ELSE [files |-> WriteCacheFile(fs, sample_size,
                                       json_dump(videos_metadata.value)),
              value |-> videos_metadata.value,
              video_ids |-> video_ids,
              searchCalls |-> sample.calls, searches |-> sample.max_results,
              probes |-> sample.probes,
              metadataCalls |-> videos_metadata.calls]

\* mutant of get_or_create_random_sample: a pool built with use_cache = false
\* is not written to the cache file
get_or_create_random_sample_nosave(fs, sample_size, use_cache, w) ==
  IF UseCachedSample(fs, use_cache, sample_size)
    THEN [files |-> fs, value |-> json_load(fs[sample_size]),
          video_ids |-> <<>>, searchCalls |-> 0, searches |-> <<>>,
          probes |-> 0, metadataCalls |-> 0]
    ELSE LET sample          == get_diverse_sample(w, sample_size)
             video_ids       == ListOf(sample.video_ids, w.order)
             videos_metadata == get_videos_metadata(video_ids, w.metadata_ok)
         IN  [files |-> IF use_cache
                          THEN WriteCacheFile(fs, sample_size,
                                              json_dump(videos_metadata.value))
                          ELSE fs,
              value |-> videos_metadata.value,
              video_ids |-> video_ids,
              searchCalls |-> sample.calls, searches |-> sample.max_results,
              probes |-> sample.probes,
              metadataCalls |-> videos_metadata.calls]

\* mutant of get_or_create_random_sample: a persisted pool without records is
\* not used, the pool is built again
get_or_create_random_sample_repairing(fs, sample_size, use_cache, w) ==
  IF UseCachedSample(fs, use_cache, sample_size) /\ fs[sample_size] # <<>>
    THEN [files |-> fs, value |-> json_load(fs[sample_size]),
          video_ids |-> <<>>, searchCalls |-> 0, searches |-> <<>>,
          probes |-> 0, metadataCalls |-> 0]
    ELSE LET sample          == get_diverse_sample(w, sample_size)
             video_ids       == ListOf(sample.video_ids, w.order)
             videos_metadata == get_videos_metadata(video_ids, w.metadata_ok)
         IN  [files |-> WriteCacheFile(fs, sample_size,
                                       json_dump(videos_metadata.value)),
              value |-> videos_metadata.value,
              video_ids |-> video_ids,
              searchCalls |-> sample.calls, searches |-> sample.max_results,
              probes |-> sample.probes,
              metadataCalls |-> videos_metadata.calls]

\* ContraFeedGenerator.get_or_create_random_sample:
\* [files, value, video_ids, searchCalls, metadataCalls], video_ids the list the
\* sampler returned
get_or_create_random_sample(fs, sample_size, use_cache, w) ==
  IF UseCachedSample(fs, use_cache, sample_size)
    THEN [files |-> fs, value |-> json_load(fs[sample_size]),
          video_ids |-> <<>>, searchCalls |-> 0, searches |-> <<>>,
          probes |-> 0, metadataCalls |-> 0]
    ELSE LET sample          == get_diverse_sample(w, sample_size)
             video_ids       == ListOf(sample.video_ids, w.order)
             videos_metadata == get_videos_metadata(video_ids, w.metadata_ok)
         IN  [files |-> WriteCacheFile(fs, sample_size,
                                       json_dump(videos_metadata.value)),
              value |-> videos_metadata.value,
              video_ids |-> video_ids,
              searchCalls |-> sample.calls, searches |-> sample.max_results,
              probes |-> sample.probes,
              metadataCalls |-> videos_metadata.calls]

\* mutant of PrepareResults: the n-th result is the n-th record of the pool
PrepareResultsInPoolOrder(ranked, random_sample, method) ==
  [n \in 1..Len(ranked) |->
     [video_id       |-> random_sample[n].video_id,
      embedding_text |-> random_sample[n].embedding_text,
      contra_score   |-> [distance |-> ranked[n][2], angle |-> ranked[n][3],
                          method |-> method]]]

\* Step 5 of generate_contra_feed (163-173)
PrepareResults(ranked, random_sample, method) ==
  [n \in 1..Len(ranked) |->
     [video_id       |-> random_sample[ranked[n][1]].video_id,
      embedding_text |-> random_sample[ranked[n][1]].embedding_text,
      contra_score   |-> [distance |-> ranked[n][2], angle |-> ranked[n][3],
                          method |-> method]]]

\* mutant of generate_contra_feed: any other method is taken as 'centroid'
generate_contra_feed_fallback(es, fs, input_video_ids, num_contra_videos, sample_size, use_cache, method, w) ==
  LET input_metadata == get_videos_metadata(input_video_ids, w.metadata_ok)
      random_sample  == get_or_create_random_sample(fs, sample_size, use_cache, w)
      input_embeddings  == embed_videos(es, input_metadata.value)
      sample_embeddings == embed_videos(input_embeddings.es, random_sample.value)
      known  == TRUE
      ranked == IF method = "diametric"
                  THEN find_diametrically_opposite(input_embeddings.value,
                         sample_embeddings.value, num_contra_videos,
                         min_distance, min_angle)
                ELSE find_opposite_to_centroid(input_embeddings.value,
                       sample_embeddings.value, num_contra_videos)
  IN  [files          |-> random_sample.files,
       es             |-> sample_embeddings.es,
       input_metadata |-> input_metadata.value,
       random_sample  |-> random_sample.value,
       queries        |-> input_embeddings.value,
       candidates     |-> sample_embeddings.value,
       known          |-> known,
       ranked         |-> ranked.value,
       error          |-> ranked.error,
       value          |-> IF ranked.error THEN <<>>
                          ELSE PrepareResults(ranked.value, random_sample.value,
                                              method),
       video_ids      |-> random_sample.video_ids,
       searchCalls    |-> random_sample.searchCalls,
       searches       |-> random_sample.searches,
       probes         |-> random_sample.probes,
       metadataCalls  |-> input_metadata.calls + random_sample.metadataCalls]

\* ContraFeedGenerator.generate_contra_feed: the outcome of the call and the
\* files and the embedder it leaves; known tells whether step 4 called the
\* Distance Engine
generate_contra_feed(es, fs, input_video_ids, num_contra_videos, sample_size, use_cache, method, w) ==
  LET input_metadata == get_videos_metadata(input_video_ids, w.metadata_ok)
      random_sample  == get_or_create_random_sample(fs, sample_size, use_cache, w)
      input_embeddings  == embed_videos(es, input_metadata.value)
      sample_embeddings == embed_videos(input_embeddings.es, random_sample.value)
      known  == method \in {"diametric", "centroid"}
      ranked == IF method = "diametric"
                  THEN find_diametrically_opposite(input_embeddings.value,
                         sample_embeddings.value, num_contra_videos,
                         min_distance, min_angle)
                ELSE IF method = "centroid"
                  THEN find_opposite_to_centroid(input_embeddings.value,
                         sample_embeddings.value, num_contra_videos)
                ELSE [error |-> TRUE, value |-> <<>>]   \* raise ValueError
  IN  [files          |-> random_sample.files,
       es             |-> sample_embeddings.es,
       input_metadata |-> input_metadata.value,
       random_sample  |-> random_sample.value,
       queries        |-> input_embeddings.value,
       candidates     |-> sample_embeddings.value,
       known          |-> known,
       ranked         |-> ranked.value,
       error          |-> ranked.error,
       value          |-> IF ranked.error THEN <<>>
                          ELSE PrepareResults(ranked.value, random_sample.value,
                                              method),
       video_ids      |-> random_sample.video_ids,
       searchCalls    |-> random_sample.searchCalls,
       searches       |-> random_sample.searches,
       probes         |-> random_sample.probes,
       metadataCalls  |-> input_metadata.calls + random_sample.metadataCalls]

\* YouTubeAPIClient.get_video_metadata with MetadataProcessor.enrich_metadata:
\* None (found = FALSE) when the provider has no item or the request fails
get_video_metadata(video_id, ok) ==
  IF ok /\ video_id \in CatalogIds
    THEN [found |-> TRUE,
          value |-> [video_id |-> video_id,
                     embedding_text |-> CatalogText(video_id)]]
    ELSE [found |-> FALSE, value |-> [video_id |-> video_id]]

\* np.mean of an empty list
NaN == -1

MeanOrNaN(s) == IF s = <<>> THEN NaN ELSE Mean(s)

\* ContraFeedGenerator.analyze_single_video; feed is the outcome of its
\* generate_contra_feed call, made when the lookup found the video
analyze_single_video(es, fs, video_id, num_contra_videos, sample_size, use_cache, lookup_ok, w) ==
  LET input_metadata == get_video_metadata(video_id, lookup_ok)
      Summary(contra_videos) ==
        [input_video_id    |-> video_id,
         num_contra_videos |-> Len(contra_videos),
         avg_distance |-> MeanOrNaN([n \in 1..Len(contra_videos) |->
                            contra_videos[n].contra_score.distance]),
         avg_angle    |-> MeanOrNaN([n \in 1..Len(contra_videos) |->
                            contra_videos[n].contra_score.angle])]
      Outcome(feed) ==
        [called |-> TRUE, error |-> feed.error, feed |-> feed,
         files |-> feed.files, es |-> feed.es,
         searchCalls |-> feed.searchCalls,
         metadataCalls |-> 1 + feed.metadataCalls,
         value |-> IF feed.error THEN <<>>
                   ELSE [input_video   |-> input_metadata.value,
                         contra_videos |-> feed.value,
                         summary       |-> Summary(feed.value)]]
  IN  IF ~input_metadata.found
        THEN [called |-> FALSE, error |-> TRUE, value |-> <<>>, files |-> fs,
              es |-> es, searchCalls |-> 0, metadataCalls |-> 1]
        ELSE CHOOSE r \in
               {Outcome(feed) : feed \in
                  {generate_contra_feed(es, fs, <<video_id>>,
                     num_contra_videos, sample_size, use_cache, "diametric",
                     w)}} : TRUE

\* mutant of Relationship: each boundary belongs to the band below it
RelationshipClosed(angle) ==
  IF angle <= 30 * AngScale THEN "very_similar"
  ELSE IF angle <= 60 * AngScale THEN "similar"
  ELSE IF angle <= 120 * AngScale THEN "different"
  ELSE IF angle <= 150 * AngScale THEN "opposite"
  ELSE "diametrically_opposite"

\* the bands of compare_videos (lines 264-273); angle in units of 1/AngScale
Relationship(angle) ==
  IF angle < 30 * AngScale THEN "very_similar"
  ELSE IF angle < 60 * AngScale THEN "similar"
  ELSE IF angle < 120 * AngScale THEN "different"
  ELSE IF angle < 150 * AngScale THEN "opposite"
  ELSE "diametrically_opposite"

\* lines 257-284 of compare_videos, on the two embeddings
Comparison(emb1, emb2) ==
  [cosine_similarity  |-> cosine_similarity(emb1, emb2),
   cosine_distance    |-> cosine_distance(emb1, emb2),
   angle_degrees      |-> angle_between_vectors(emb1, emb2),
   euclidean_distance |-> euclidean_distance(emb1, emb2),
   relationship       |-> Relationship(angle_between_vectors(emb1, emb2))]

\* mutant of compare_videos: the first video is embedded before the second
\* lookup is tested
compare_videos_eager(es, video_id_1, video_id_2, ok1, ok2) ==
  LET metadata1 == get_video_metadata(video_id_1, ok1)
      metadata2 == get_video_metadata(video_id_2, ok2)
      emb1 == embed_text(es, metadata1.value.embedding_text)
      emb2 == embed_text(emb1.es, metadata2.value.embedding_text)
  IN  IF ~metadata1.found
        THEN [error |-> TRUE, value |-> <<>>, es |-> es, metadataCalls |-> 2]
      ELSE IF ~metadata2.found
        THEN [error |-> TRUE, value |-> <<>>, es |-> emb1.es,
              metadataCalls |-> 2]
      ELSE [error |-> FALSE, es |-> emb2.es, metadataCalls |-> 2,
            value |-> [video_1 |-> metadata1.value,
                       video_2 |-> metadata2.value,
                       comparison |-> Comparison(emb1.value, emb2.value)]]

\* ContraFeedGenerator.compare_videos
compare_videos(es, video_id_1, video_id_2, ok1, ok2) ==
  LET metadata1 == get_video_metadata(video_id_1, ok1)
      metadata2 == get_video_metadata(video_id_2, ok2)
      emb1 == embed_text(es, metadata1.value.embedding_text)
      emb2 == embed_text(emb1.es, metadata2.value.embedding_text)
  IN  IF ~metadata1.found \/ ~metadata2.found
        THEN [error |-> TRUE, value |-> <<>>, es |-> es, metadataCalls |-> 2]
        ELSE [error |-> FALSE, es |-> emb2.es, metadataCalls |-> 2,
              value |-> [video_1 |-> metadata1.value,
                         video_2 |-> metadata2.value,
                         comparison |-> Comparison(emb1.value, emb2.value)]]

Idle == [op |-> "none"]

PipeInit ==
  /\ files = <<>>
  /\ deleted = {}
  /\ req = Idle

\* what a call finds when it starts
Before ==
  [files |-> files, cache |-> cache, embedCalls |-> embedCalls,
   deleted |-> deleted]

\* the answers of the provider a call can meet
WorldsOf(sample_size, use_cache) ==
  IF UseCachedSample(files, use_cache, sample_size) THEN QuietWorlds ELSE Worlds

\* a caller calls get_or_create_random_sample(sample_size, use_cache)
GetOrCreateRandomSample(sample_size, use_cache) ==
  /\ req = Idle
  /\ \E w \in WorldsOf(sample_size, use_cache) :
       \E r \in {get_or_create_random_sample(files, sample_size, use_cache, w)} :
           /\ files' = r.files
           /\ req' = [op |-> "get_or_create_random_sample",
                      sample_size |-> sample_size, use_cache |-> use_cache,
                      random_sample |-> r.value, error |-> FALSE,
                      value |-> r.value, video_ids |-> r.video_ids,
                      searchCalls |-> r.searchCalls,
                      searches |-> r.searches, probes |-> r.probes,
                      metadataCalls |-> r.metadataCalls,
                      world |-> w, before |-> Before]
           /\ deleted' = deleted \ DOMAIN r.files
  /\ UNCHANGED <<rankVars, embedVars>>

\* a caller calls generate_contra_feed(input_video_ids, num_contra_videos,
\* sample_size, use_cache, method)
GenerateContraFeed(input_video_ids, num_contra_videos, sample_size, use_cache, method) ==
  /\ req = Idle
  /\ \E w \in WorldsOf(sample_size, use_cache) :
       \E r \in {generate_contra_feed(EmbedderState, files, input_video_ids,
                   num_contra_videos, sample_size, use_cache, method, w)} :
           /\ files' = r.files
           /\ cache' = r.es.cache
           /\ embedCalls' = r.es.embedCalls
           /\ modelCalls' = r.es.modelCalls
           /\ IF r.known
                THEN /\ query_embeddings' = r.queries
                     /\ candidate_embeddings' = r.candidates
                     /\ k' = num_contra_videos
                     /\ rankOp' = method
                     /\ rankError' = r.error
                     /\ contra_results' = r.ranked
                     /\ UNCHANGED <<min_distance, min_angle>>
                ELSE UNCHANGED rankVars
           /\ req' = [op |-> "generate_contra_feed",
                      input_video_ids |-> input_video_ids,
                      num_contra_videos |-> num_contra_videos,
                      sample_size |-> sample_size, use_cache |-> use_cache,
                      method |-> method, input_metadata |-> r.input_metadata,
                      random_sample |-> r.random_sample, error |-> r.error,
                      value |-> r.value, video_ids |-> r.video_ids,
                      searchCalls |-> r.searchCalls,
                      searches |-> r.searches, probes |-> r.probes,
                      metadataCalls |-> r.metadataCalls,
                      world |-> w, before |-> Before]
           /\ deleted' = deleted \ DOMAIN r.files
  /\ UNCHANGED <<firstReturn, lastEmbed>>

\* the caller has the result (or the error) of the call; the generator, its
\* cache directory and its embedder stay for the next call
Return ==
  /\ req # Idle
  /\ req' = Idle
  /\ query_embeddings' = <<>>
  /\ candidate_embeddings' = <<>>
  /\ k' = 1
  /\ rankOp' = "none"
  /\ rankError' = FALSE
  /\ contra_results' = <<>>
  /\ UNCHANGED <<min_distance, min_angle, files, deleted, embedVars>>

\* os.remove of the cache file of sample_size
RemoveCacheFile(fs, sample_size) ==
  [x \in DOMAIN fs \ {sample_size} |-> fs[x]]

\* a consumer deletes the artifact of sample_size between two calls
DeleteArtifact(sample_size) ==
  /\ req = Idle
  /\ CacheFileExists(files, sample_size)
  /\ files' = RemoveCacheFile(files, sample_size)
  /\ deleted' = deleted \cup {sample_size}
  /\ UNCHANGED <<req, rankVars, embedVars>>

PipeNext ==
  \/ \E sample_size \in Sizes, use_cache \in BOOLEAN :
       GetOrCreateRandomSample(sample_size, use_cache)
  \/ \E input_video_ids \in InputLists, num_contra_videos \in 1..MaxK,
        sample_size \in Sizes, use_cache \in BOOLEAN, method \in Methods :
       GenerateContraFeed(input_video_ids, num_contra_videos, sample_size,
                          use_cache, method)
  \/ \E sample_size \in Sizes : DeleteArtifact(sample_size)
  \/ Return

LookupIds == CatalogIds \cup MissingIds

\* a caller calls analyze_single_video(video_id, num_contra_videos,
\* sample_size, use_cache); lookup_ok: the request of the lookup succeeds
AnalyzeSingleVideo(video_id, num_contra_videos, sample_size, use_cache, lookup_ok) ==
  /\ req = Idle
  /\ \E w \in IF lookup_ok /\ video_id \in CatalogIds
                THEN WorldsOf(sample_size, use_cache) ELSE QuietWorlds :
       \E r \in {analyze_single_video(EmbedderState, files, video_id,
                   num_contra_videos, sample_size, use_cache, lookup_ok, w)} :
           /\ files' = r.files
           /\ deleted' = deleted \ DOMAIN r.files
           /\ cache' = r.es.cache
           /\ embedCalls' = r.es.embedCalls
           /\ modelCalls' = r.es.modelCalls
           /\ IF r.called
                THEN /\ query_embeddings' = r.feed.queries
                     /\ candidate_embeddings' = r.feed.candidates
                     /\ k' = num_contra_videos
                     /\ rankOp' = "diametric"
                     /\ rankError' = r.feed.error
                     /\ contra_results' = r.feed.ranked
                     /\ UNCHANGED <<min_distance, min_angle>>
                ELSE UNCHANGED rankVars
           /\ req' = [op |-> "analyze_single_video", video_id |-> video_id,
                      num_contra_videos |-> num_contra_videos,
                      sample_size |-> sample_size, use_cache |-> use_cache,
                      lookup_ok |-> lookup_ok, error |-> r.error,
                      value |-> r.value, searchCalls |-> r.searchCalls,
                      metadataCalls |-> r.metadataCalls,
                      world |-> w, before |-> Before]
  /\ UNCHANGED <<firstReturn, lastEmbed>>

\* a caller calls compare_videos(video_id_1, video_id_2); ok1, ok2: the
\* requests of the two lookups succeed
CompareVideos(video_id_1, video_id_2, ok1, ok2) ==
  /\ req = Idle
  /\ \E r \in {compare_videos(EmbedderState, video_id_1, video_id_2, ok1, ok2)} :
       /\ cache' = r.es.cache
       /\ embedCalls' = r.es.embedCalls
       /\ modelCalls' = r.es.modelCalls
       /\ req' = [op |-> "compare_videos", video_id_1 |-> video_id_1,
                  video_id_2 |-> video_id_2, ok1 |-> ok1, ok2 |-> ok2,
                  error |-> r.error, value |-> r.value, searchCalls |-> 0,
                  metadataCalls |-> r.metadataCalls, before |-> Before]
  /\ UNCHANGED <<files, deleted, rankVars, firstReturn, lastEmbed>>

SingleNext ==
  \/ \E video_id \in LookupIds, num_contra_videos \in 1..MaxK,
        sample_size \in Sizes, use_cache \in BOOLEAN, lookup_ok \in BOOLEAN :
       AnalyzeSingleVideo(video_id, num_contra_videos, sample_size, use_cache,
                          lookup_ok)
  \/ \E video_id_1 \in LookupIds, video_id_2 \in LookupIds,
        ok1 \in BOOLEAN, ok2 \in BOOLEAN :
       CompareVideos(video_id_1, video_id_2, ok1, ok2)
  \/ Return

\* angles of [0, 180] degrees: every whole degree and its two neighbours
AngleGrid ==
  {d * AngScale + e : d \in 0..180, e \in {-1, 0, 1}} \cap (0..(180 * AngScale))

\* lines 264-273 of compare_videos on one angle
ClassifyAngle(angle) ==
  /\ req = Idle
  /\ req' = [op |-> "relationship", angle |-> angle,
             relationship |-> Relationship(angle)]
  /\ UNCHANGED <<files, deleted, rankVars, embedVars>>

\* lines 257-284 of compare_videos on two embeddings
CompareEmbeddings(emb1, emb2) ==
  /\ req = Idle
  /\ req' = [op |-> "comparison", emb1 |-> emb1, emb2 |-> emb2,
             comparison |-> Comparison(emb1, emb2)]
  /\ UNCHANGED <<files, deleted, rankVars, embedVars>>

\* lines 253-284 of compare_videos on the embedding texts of two records
CompareTexts(text1, text2) ==
  /\ req = Idle
  /\ \E r1 \in {embed_text(EmbedderState, text1)} :
       \E r2 \in {embed_text(r1.es, text2)} :
         /\ cache' = r2.es.cache
         /\ embedCalls' = r2.es.embedCalls
         /\ modelCalls' = r2.es.modelCalls
         /\ req' = [op |-> "compare_texts", text1 |-> text1, text2 |-> text2,
                    emb1 |-> r1.value, emb2 |-> r2.value,
                    comparison |-> Comparison(r1.value, r2.value)]
  /\ UNCHANGED <<files, deleted, rankVars, firstReturn, lastEmbed>>

CompareNext ==
  \/ \E angle \in AngleGrid : ClassifyAngle(angle)
  \/ \E emb1 \in CandVectors, emb2 \in CandVectors :
       CompareEmbeddings(emb1, emb2)
  \/ \E text1 \in Texts, text2 \in Texts : CompareTexts(text1, text2)
  \/ Return

\* operands of one, two and three components, with a zero vector of each
DimVectors ==
  {<<VScale>>, <<0>>, <<VScale, 0>>, <<0, VScale>>, ZeroVec,
   <<VScale, 0, 0>>, <<0, 0, 0>>}

Operations ==
  {"cosine_similarity", "cosine_distance", "angle_between_vectors",
   "euclidean_distance"}

\* a caller calls one operation of DistanceCalculator on two operands
CallDistance(operation, embedding1, embedding2) ==
  /\ req = Idle
  /\ \E r \in {DistanceCalculator(operation, embedding1, embedding2)} :
       req' = [op |-> operation, emb1 |-> embedding1, emb2 |-> embedding2,
               error |-> r.error,
               value |-> IF r.error THEN <<>> ELSE r.value]
  /\ UNCHANGED <<files, deleted, rankVars, embedVars>>

DistanceNext ==
  \/ \E operation \in Operations, embedding1 \in DimVectors,
        embedding2 \in DimVectors :
       CallDistance(operation, embedding1, embedding2)
  \/ Return

\* a caller calls generator.embedder.embed_text(text)
EmbedText(text) ==
  /\ req = Idle
  /\ \E r \in {embed_text(EmbedderState, text)} :
       /\ cache' = r.es.cache
       /\ embedCalls' = r.es.embedCalls
       /\ modelCalls' = r.es.modelCalls
       /\ req' = [op |-> "embed_text", text |-> text, error |-> FALSE,
                  value |-> r.value, before |-> Before]
  /\ UNCHANGED <<files, deleted, rankVars, firstReturn, lastEmbed>>

\* a caller calls generator.embedder.embed_videos(videos_metadata)
EmbedVideos(videos_metadata) ==
  /\ req = Idle
  /\ \E r \in {embed_videos(EmbedderState, videos_metadata)} :
       /\ cache' = r.es.cache
       /\ embedCalls' = r.es.embedCalls
       /\ modelCalls' = r.es.modelCalls
       /\ req' = [op |-> "embed_videos", videos_metadata |-> videos_metadata,
                  error |-> FALSE, value |-> r.value, before |-> Before]
  /\ UNCHANGED <<files, deleted, rankVars, firstReturn, lastEmbed>>

\* the batches a caller passes to the generator's embedder: none or one record
Batches == {<<>>} \cup {<<video>> : video \in Records}

\* the artifact size of the requests
RequestSizes == {1}

\* every call on one generator and its embedder
GeneratorNext ==
  \/ \E text \in Texts : EmbedText(text)
  \/ \E videos_metadata \in Batches : EmbedVideos(videos_metadata)
  \/ \E input_video_ids \in InputLists, sample_size \in RequestSizes,
        use_cache \in BOOLEAN :
       GenerateContraFeed(input_video_ids, MaxK, sample_size, use_cache,
                          "diametric")
  \/ \E video_id \in LookupIds, sample_size \in RequestSizes,
        lookup_ok \in BOOLEAN :
       AnalyzeSingleVideo(video_id, MaxK, sample_size, TRUE, lookup_ok)
  \/ \E video_id_1 \in LookupIds, video_id_2 \in LookupIds :
       CompareVideos(video_id_1, video_id_2, TRUE, TRUE)
  \/ Return

----------------------------------------------------------------------------
(* Specifications *)

RankSpecInit ==
  /\ RankInit
  /\ EmbedInit
  /\ PipeInit

\* the ranking functions on every input of the bounded sets
SpecRank == RankSpecInit /\ [][RankNext]_vars

EmbedSpecInit ==
  /\ RankIdle
  /\ EmbedInit
  /\ PipeInit

\* one CachedVideoEmbedder under any sequence of calls
SpecEmbed == EmbedSpecInit /\ [][EmbedNext]_vars

SingleSpecInit ==
  /\ RankIdle
  /\ EmbedInit
  /\ PipeInit

\* one ContraFeedGenerator under any sequence of single-video calls
SpecSingle == SingleSpecInit /\ [][SingleNext]_vars

CompareSpecInit ==
  /\ RankIdle
  /\ EmbedInit
  /\ PipeInit

\* the comparison stage of compare_videos on any angle, any two embeddings
\* and any two embedding texts
SpecCompare == CompareSpecInit /\ [][CompareNext]_vars

DistanceSpecInit ==
  /\ RankIdle
  /\ EmbedInit
  /\ PipeInit

\* the Distance Engine's two-operand operations on operands of any dimensions
SpecDistance == DistanceSpecInit /\ [][DistanceNext]_vars

\* (MIN_DISTANCE_THRESHOLD, MIN_ANGLE_THRESHOLD) of the generator: the
\* defaults, and the smallest values above 0 and above 90 degrees
GeneratorThresholds ==
  { <<7 * (SimScale \div 10), 150 * AngScale>>, <<1, 90 * AngScale + 1>> }

GeneratorSpecInit ==
  /\ query_embeddings = <<>>
  /\ candidate_embeddings = <<>>
  /\ k = 1
  /\ \E t \in GeneratorThresholds : min_distance = t[1] /\ min_angle = t[2]
  /\ rankOp = "none"
  /\ rankError = FALSE
  /\ contra_results = <<>>
  /\ EmbedInit
  /\ PipeInit

\* one ContraFeedGenerator and its embedder under any sequence of calls
SpecGenerator == GeneratorSpecInit /\ [][GeneratorNext]_vars

Init ==
  /\ RankIdle
  /\ EmbedInit
  /\ PipeInit

Next == PipeNext

\* one ContraFeedGenerator under any sequence of calls
Spec == Init /\ [][Next]_vars

----------------------------------------------------------------------------
(* Claims about the ranking functions, checked under SpecRank *)

MinInt(a, b) == IF a < b THEN a ELSE b

ResultIndices == {contra_results[n][1] : n \in 1..Len(contra_results)}

\* every query is at least min_distance away from candidate i
FarFromEveryQuery(i) ==
  \A q \in 1..Len(query_embeddings) :
    cosine_distance(query_embeddings[q], candidate_embeddings[i]) >= min_distance

MeanAngle(i) == Mean(Angles(query_embeddings, candidate_embeddings[i]))

MeanDistance(i) == Mean(Distances(query_embeddings, candidate_embeddings[i]))

Qualifiers ==
  {i \in 1..Len(candidate_embeddings) :
     FarFromEveryQuery(i) /\ MeanAngle(i) >= min_angle}

DiametricDone ==
  rankOp = "diametric" /\ ~rankError /\ query_embeddings # <<>>

\* C1: every candidate returned by find_diametrically_opposite is at cosine
\* distance >= min_distance from every query and has mean angle >= min_angle;
\* the bounds are inclusive: a candidate lying exactly on a bound and passing
\* both gates is not rejected (it is returned whenever fewer than k are).
C1_GatesHold ==
  DiametricDone =>
    /\ \A i \in ResultIndices : FarFromEveryQuery(i) /\ MeanAngle(i) >= min_angle
    /\ Len(contra_results) < k => Qualifiers \subseteq ResultIndices

\* C1 witness: a returned candidate lies exactly on both bounds while another
\* candidate, failing a gate, is left out.
C1_Witness ==
  /\ DiametricDone
  /\ \E i \in ResultIndices :
       /\ MeanAngle(i) = min_angle
       /\ \E q \in 1..Len(query_embeddings) :
            cosine_distance(query_embeddings[q], candidate_embeddings[i])
              = min_distance
  /\ \E j \in 1..Len(candidate_embeddings) : j \notin ResultIndices

\* (avg_angle, avg_distance) of entry a is >= that of entry b
KeyGeq(a, b) == a[3] > b[3] \/ (a[3] = b[3] /\ a[2] >= b[2])

\* C2: the diametric result is in descending order of (avg_angle,
\* avg_distance), and no qualifying candidate that was left out has a strictly
\* larger key than a returned one.
C2_SortedTopK ==
  DiametricDone =>
    /\ \A m, n \in 1..Len(contra_results) :
         m < n => KeyGeq(contra_results[m], contra_results[n])
    /\ \A n \in 1..Len(contra_results) :
         /\ contra_results[n][2] = MeanDistance(contra_results[n][1])
         /\ contra_results[n][3] = MeanAngle(contra_results[n][1])
    /\ \A i \in Qualifiers \ ResultIndices :
         \A n \in 1..Len(contra_results) :
           KeyGeq(contra_results[n], <<i, MeanDistance(i), MeanAngle(i)>>)

\* C2 witness: two candidates with equal mean angle were returned in the
\* order of their mean distance, against their input order.
C2_Witness ==
  /\ DiametricDone
  /\ Len(contra_results) = 2
  /\ contra_results[1][3] = contra_results[2][3]
  /\ contra_results[1][2] > contra_results[2][2]
  /\ contra_results[1][1] > contra_results[2][1]

\* C2 witness of the truncation: a qualifier was cut off by k.
C2_WitnessCut ==
  DiametricDone /\ Qualifiers \ ResultIndices # {}

CentroidDone == rankOp = "centroid" /\ query_embeddings # <<>>

\* C4: find_opposite_to_centroid filters nothing: it returns exactly
\* min(k, number of candidates) entries, no candidate index twice, each scored
\* against the centroid of the queries, whatever the thresholds are.
C4_CentroidNoFilter ==
  CentroidDone =>
    /\ ~rankError
    /\ Len(contra_results) = MinInt(k, Len(candidate_embeddings))
    /\ Cardinality(ResultIndices) = Len(contra_results)
    /\ ResultIndices \subseteq 1..Len(candidate_embeddings)
    /\ \A n \in 1..Len(contra_results) :
         LET x == contra_results[n]
             c == calculate_centroid(query_embeddings)
         IN  /\ x[2] = cosine_distance(c, candidate_embeddings[x[1]])
             /\ x[3] = angle_between_vectors(c, candidate_embeddings[x[1]])

\* C4 witness: a candidate below both diametric thresholds is returned.
C4_Witness ==
  /\ CentroidDone
  /\ Len(query_embeddings) = 2
  /\ \E n \in 1..Len(contra_results) :
       /\ contra_results[n][2] < min_distance
       /\ contra_results[n][3] < min_angle

----------------------------------------------------------------------------
(* Claims about the Embedding Cache, checked under SpecEmbed *)

IsBlankText(text) == text \in {"", " "}

\* C6 as stated: whenever embed_text(t) returns, it returns what the first
\* embed_text(t) returned, and the Embedder has computed t exactly once in
\* total.
C6_OneComputation ==
  lastEmbed.op = "embed_text" =>
    /\ lastEmbed.value = firstReturn[lastEmbed.text]
    /\ embedCalls[lastEmbed.text] = 1

BatchDone == lastEmbed.op = "embed_videos"

BatchIndices == IF BatchDone THEN 1..Len(lastEmbed.videos) ELSE {}

\* C7: embed_videos returns one embedding per record, in input order, each
\* the vector held under the record's video-id key; a record whose key was
\* cached causes no Embedder call, and on a miss the vector is the one
\* embed_text(embedding_text) returns (held under the raw-text key too).
C7_EmbedVideos ==
  BatchDone =>
    /\ Len(lastEmbed.value) = Len(lastEmbed.videos)
    /\ \A i \in BatchIndices :
         LET key  == cache_key(lastEmbed.videos[i].video_id)
             text == lastEmbed.videos[i].embedding_text
         IN  /\ key \in DOMAIN cache
             /\ lastEmbed.value[i] = cache[key]
             /\ lastEmbed.trace[i].keyHit => ~lastEmbed.trace[i].computed
             /\ ~lastEmbed.trace[i].keyHit =>
                  text \in DOMAIN cache /\ lastEmbed.value[i] = cache[text]

\* C7 witness: a batch of two videos, the first answered from its cached
\* video-id key, the second computed, with different vectors.
C7_Witness ==
  /\ BatchDone
  /\ Len(lastEmbed.videos) = 2
  /\ lastEmbed.trace[1].keyHit
  /\ ~lastEmbed.trace[2].keyHit
  /\ lastEmbed.trace[2].computed
  /\ lastEmbed.value[1] # lastEmbed.value[2]
  /\ lastEmbed.value[1] # ZeroVec

\* the case of C8: record i met an uncached video-id key while its text was
\* cached under the raw-text key
DualKeyCase(i) ==
  ~lastEmbed.trace[i].keyHit /\ lastEmbed.trace[i].textHit

\* C8 as stated: in that case embed_videos issues one more Embedder call.
C8_Recomputes ==
  \A i \in BatchIndices : DualKeyCase(i) => lastEmbed.trace[i].computed

\* C8 amended: in that case embed_videos issues no Embedder call; it returns
\* the vector held under the raw-text key and stores it under the video-id
\* key.
C8_NoRecompute ==
  \A i \in BatchIndices :
    DualKeyCase(i) =>
      /\ ~lastEmbed.trace[i].computed
      /\ lastEmbed.value[i] = cache[lastEmbed.videos[i].embedding_text]
      /\ lastEmbed.value[i] = cache[cache_key(lastEmbed.videos[i].video_id)]

\* C8 witness: the case happened, for a text with a non-zero embedding.
C8_Witness ==
  \E i \in BatchIndices : DualKeyCase(i) /\ lastEmbed.value[i] # ZeroVec

\* C9 as stated: for blank text embed_text and embed_videos return the zero
\* vector and the model is never invoked.
C9_BlankIsZero ==
  /\ (lastEmbed.op = "embed_text" /\ IsBlankText(lastEmbed.text)) =>
       lastEmbed.value = ZeroVec /\ modelCalls[lastEmbed.text] = 0
  /\ \A i \in BatchIndices :
       IsBlankText(lastEmbed.videos[i].embedding_text) =>
         /\ lastEmbed.value[i] = ZeroVec
         /\ modelCalls[lastEmbed.videos[i].embedding_text] = 0

----------------------------------------------------------------------------
(* Claims about the Contra Selector, checked under Spec *)

FeedDone == req.op = "generate_contra_feed"

SampleDone == req.op = "get_or_create_random_sample"

\* the gates can be evaluated: there is a query, or there is no candidate
GatesDefined == query_embeddings # <<>> \/ candidate_embeddings = <<>>

\* C3: when q candidates pass both gates, find_diametrically_opposite returns
\* exactly min(k, q) entries, all of them qualifiers, each once, and does not
\* raise; generate_contra_feed with method 'diametric' returns the pool
\* records at exactly those indices.  With q < k these are all q qualifiers
\* and no candidate that fails a gate; with q = 0 the empty list.  (q is
\* defined when the gates can be evaluated.)
C3_MinKQ ==
  (rankOp = "diametric" /\ GatesDefined) =>
    /\ ~rankError
    /\ Len(contra_results) = MinInt(k, Cardinality(Qualifiers))
    /\ Cardinality(ResultIndices) = Len(contra_results)
    /\ ResultIndices \subseteq Qualifiers
    /\ FeedDone =>
         /\ ~req.error
         /\ req.method = "diametric"
         /\ k = req.num_contra_videos
         /\ Len(candidate_embeddings) = Len(req.random_sample)
         /\ Len(req.value) = Len(contra_results)
         /\ \A n \in 1..Len(req.value) :
              req.value[n].video_id
                = req.random_sample[contra_results[n][1]].video_id

\* C3 witness: generate_contra_feed asked for two videos of a pool of two of
\* which one passes the gates, and returned that one.
C3_Witness ==
  /\ FeedDone
  /\ rankOp = "diametric"
  /\ query_embeddings # <<>>
  /\ req.num_contra_videos = 2
  /\ Len(req.random_sample) = 2
  /\ Cardinality(Qualifiers) = 1
  /\ Len(req.value) = 1

\* the call was made with use_cache = true while the artifact of its size
\* existed
CacheHitCase ==
  /\ FeedDone \/ SampleDone
  /\ req.use_cache
  /\ req.sample_size \in DOMAIN req.before.files

\* C10: on a sample-cache hit get_or_create_random_sample returns the
\* persisted pool, issues no search call and no metadata call (a
\* generate_contra_feed around it issues only the one request for its own
\* inputs), and leaves every cache artifact unchanged.
C10_CacheHit ==
  CacheHitCase =>
    LET persisted == req.before.files[req.sample_size]
    IN  /\ Len(req.random_sample) = Len(persisted)
        /\ \A i \in 1..Len(persisted) :
             /\ req.random_sample[i].video_id = persisted[i][1]
             /\ req.random_sample[i].embedding_text = persisted[i][2]
        /\ SampleDone => req.value = req.random_sample
        /\ req.searchCalls = 0
        /\ req.metadataCalls =
             IF FeedDone /\ req.input_video_ids # <<>> THEN 1 ELSE 0
        /\ files = req.before.files

\* C10 witness: a direct call hit a persisted pool of two videos.
C10_Witness ==
  /\ SampleDone
  /\ CacheHitCase
  /\ Len(req.value) = 2
  /\ req.searchCalls = 0

\* the videos the searches of the call found
Found(w) == IF w.pattern = "all" THEN {} ELSE w.ids

\* metadata requests the call sent for its input videos
InputFetches == IF FeedDone /\ req.input_video_ids # <<>> THEN 1 ELSE 0

\* the call was made with use_cache = false, or found no artifact of its size
RegenCase ==
  /\ FeedDone \/ SampleDone
  /\ ~(req.use_cache /\ req.sample_size \in DOMAIN req.before.files)

\* the artifact of sample_size holds exactly pool
Persisted(sample_size, pool) ==
  /\ sample_size \in DOMAIN files
  /\ Len(files[sample_size]) = Len(pool)
  /\ \A i \in 1..Len(pool) :
       files[sample_size][i] = <<pool[i].video_id, pool[i].embedding_text>>

\* C11: a call with use_cache = false and a call with use_cache = true that
\* finds no artifact of its size (it was deleted) behave identically: under
\* the same answers of the provider both run the sampler, fetch and enrich the
\* metadata, return the same pool and leave the artifact of that size holding
\* exactly that pool; the artifacts of the other sizes are neither read (the
\* pool does not depend on them) nor written.
C11_Regeneration ==
  RegenCase =>
    LET size    == req.sample_size
        forced  == get_or_create_random_sample(req.before.files, size, FALSE,
                                               req.world)
        removed == get_or_create_random_sample(
                     RemoveCacheFile(req.before.files, size), size, TRUE,
                     req.world)
        alone   == get_or_create_random_sample(<<>>, size, req.use_cache,
                                               req.world)
    IN  /\ forced = removed
        /\ req.random_sample = forced.value
        /\ req.random_sample = alone.value
        /\ req.searchCalls > 0
        /\ req.metadataCalls - InputFetches
             = IF Found(req.world) = {} THEN 0 ELSE 1
        /\ Persisted(size, req.random_sample)
        /\ \A other \in Sizes \ {size} :
             /\ other \in DOMAIN files <=> other \in DOMAIN req.before.files
             /\ other \in DOMAIN files => files[other] = req.before.files[other]

\* C11 witness: a direct call with use_cache = true, made after the artifact
\* of its size was deleted while another size keeps its artifact, rebuilt a
\* pool of two videos.
C11_Witness ==
  /\ SampleDone
  /\ req.use_cache
  /\ req.sample_size \in req.before.deleted
  /\ req.sample_size \notin DOMAIN req.before.files
  /\ \E other \in Sizes \ {req.sample_size} : other \in DOMAIN files
  /\ Len(req.value) = 2
  /\ Persisted(req.sample_size, req.value)

\* the video ids of a list of records
IdsOf(pool) == {pool[i].video_id : i \in 1..Len(pool)}

NoDuplicateIds(pool) ==
  \A i, j \in 1..Len(pool) : pool[i].video_id = pool[j].video_id => i = j

NoRepeats(ids) == \A i, j \in 1..Len(ids) : ids[i] = ids[j] => i = j

\* C12: a pool built by get_diverse_sample and the metadata fetch holds no
\* two records with the same video_id, whatever overlapping ids the searches
\* returned: the list of ids the sampler hands to the metadata fetch names no
\* video twice, the pool returned and the pool persisted neither.
C12_NoDuplicates ==
  /\ RegenCase =>
       /\ NoRepeats(req.video_ids)
       /\ NoDuplicateIds(req.random_sample)
  /\ \A size \in DOMAIN files : NoRepeats([i \in 1..Len(files[size]) |->
                                             files[size][i][1]])

\* C12 witness: every one of the searches of a call returned the same two
\* videos, and the pool holds the two.
C12_Witness ==
  /\ RegenCase
  /\ req.world.pattern = "none"
  /\ req.world.ids = CatalogIds
  /\ req.searchCalls > 1
  /\ Len(req.random_sample) = 2

\* C13 as claimed: the sampler called for target size N returns at most N
\* unique video ids.
C13_AtMostN ==
  RegenCase =>
    Cardinality({req.video_ids[i] : i \in 1..Len(req.video_ids)})
      <= req.sample_size

\* the searches of a call for sample_size, by number
SearchesOf(sample_size) ==
  1..((sample_size \div PrefixDivisor) + NumCategories)

\* C14: a failed search never aborts the pool build: whichever searches
\* fail, get_diverse_sample attempts every search, raises nothing and returns
\* exactly the union of the ids of the searches that succeeded.
C14_FailedSearchSkipped ==
  RegenCase =>
    /\ req.searchCalls = Cardinality(SearchesOf(req.sample_size))
    /\ SampleDone => ~req.error
    /\ {req.video_ids[i] : i \in 1..Len(req.video_ids)}
         = UNION {IF Fails(req.world.pattern, n) THEN {} ELSE req.world.ids :
                    n \in SearchesOf(req.sample_size)}

\* C14 witness: the first search of a call failed, the later ones found two
\* videos, and the sampler returned the two.
C14_Witness ==
  /\ SampleDone
  /\ RegenCase
  /\ req.world.pattern = "first"
  /\ Len(req.video_ids) = 2
  /\ req.searchCalls = Cardinality(SearchesOf(req.sample_size))

SupportedMethod == req.method \in {"diametric", "centroid"}

\* C15: generate_contra_feed with a method other than 'diametric' and
\* 'centroid' ends with an error and returns no result list; neither ranking
\* function is called in its place.
C15_UnknownMethodFails ==
  (FeedDone /\ ~SupportedMethod) =>
    /\ req.error
    /\ req.value = <<>>
    /\ rankOp = "none"
    /\ contra_results = <<>>

\* C15 witness: a call with method 'average', one resolved input and a pool
\* of two videos ended with an error.
C15_Witness ==
  /\ FeedDone
  /\ req.method = "average"
  /\ Len(req.input_metadata) = 1
  /\ Len(req.random_sample) = 2
  /\ req.error

\* C16 as claimed: with an unsupported method the error is raised before any
\* metadata or search call is issued and before the sample cache or the
\* embedding cache is modified.
C16_SurfacedImmediately ==
  (FeedDone /\ ~SupportedMethod) =>
    /\ req.searchCalls = 0
    /\ req.metadataCalls = 0
    /\ files = req.before.files
    /\ cache = req.before.cache

\* the input ids that have metadata, each once, in input order
Resolved(input_video_ids) ==
  SelectSeq(Unique(input_video_ids), LAMBDA v : v \in CatalogIds)

\* metadata requests the call sent for its pool
SampleFetches == IF RegenCase /\ Found(req.world) # {} THEN 1 ELSE 0

\* C18: in generate_contra_feed the input ids without metadata are left out
\* of the query set without an error and without a second fetch; when at
\* least one input resolves the request completes (for a supported method)
\* and the ranking is computed from exactly the resolved inputs.
C18_MissingInputsOmitted ==
  (FeedDone /\ req.input_metadata # <<>>) =>
    LET resolved == Resolved(req.input_video_ids)
    IN  /\ Len(req.input_metadata) = Len(resolved)
        /\ \A i \in 1..Len(resolved) :
             req.input_metadata[i].video_id = resolved[i]
        /\ req.metadataCalls - SampleFetches = 1
        /\ SupportedMethod =>
             /\ ~req.error
             /\ rankOp = req.method
             /\ Len(query_embeddings) = Len(resolved)
             /\ \A i \in 1..Len(resolved) :
                  query_embeddings[i] = Encode(CatalogText(resolved[i]))

\* C18 witness: of the inputs "m" and "a" only "a" has metadata; the request
\* completed with one query vector and returned a video.
C18_Witness ==
  /\ FeedDone
  /\ req.input_video_ids = <<"m", "a">>
  /\ SupportedMethod
  /\ ~req.error
  /\ Len(query_embeddings) = 1
  /\ Len(req.value) = 1

----------------------------------------------------------------------------
(* Claims about the single-video calls, checked under SpecSingle *)

AnalyzeDone == req.op = "analyze_single_video"

CompareDone == req.op = "compare_videos"

NoMetadata(video_id, ok) == video_id \notin CatalogIds \/ ~ok

\* a single-video call for a video without metadata
LookupMissed ==
  \/ AnalyzeDone /\ NoMetadata(req.video_id, req.lookup_ok)
  \/ CompareDone /\ (\/ NoMetadata(req.video_id_1, req.ok1)
                     \/ NoMetadata(req.video_id_2, req.ok2))

\* C17: analyze_single_video raises when its input id has no metadata and
\* compare_videos raises when either id has none; the error comes before any
\* search call and before any embedding is computed, and leaves the sample
\* cache and the embedding cache unchanged.
C17_MissingVideoFailsHard ==
  LookupMissed =>
    /\ req.error
    /\ req.value = <<>>
    /\ req.searchCalls = 0
    /\ embedCalls = req.before.embedCalls
    /\ cache = req.before.cache
    /\ files = req.before.files

\* C17 witness: compare_videos of a video with metadata, not yet embedded,
\* and a video without, while a pool is persisted and the embedding cache is
\* not empty.
C17_Witness ==
  /\ CompareDone
  /\ req.video_id_1 = "b" /\ req.ok1
  /\ req.video_id_2 = "m"
  /\ req.error
  /\ ~CacheHas(cache, CatalogText("b"))
  /\ DOMAIN cache # {}
  /\ DOMAIN files # {}

----------------------------------------------------------------------------
(* Claims about the comparison stage, checked under SpecCompare *)

ClassifyDone == req.op = "relationship"

ComparisonDone == req.op \in {"comparison", "compare_texts"}

\* C19: every angle of [0, 180] falls in exactly one of five bands with
\* half-open boundaries: below 30 very_similar, from 30 below 60 similar,
\* from 60 below 120 different, from 120 below 150 opposite, from 150
\* diametrically_opposite; orthogonal vectors are "different" and opposite
\* vectors "diametrically_opposite".
C19_AngleBands ==
  /\ ClassifyDone =>
       /\ req.angle < 30 * AngScale <=> req.relationship = "very_similar"
       /\ (30 * AngScale <= req.angle /\ req.angle < 60 * AngScale)
            <=> req.relationship = "similar"
       /\ (60 * AngScale <= req.angle /\ req.angle < 120 * AngScale)
            <=> req.relationship = "different"
       /\ (120 * AngScale <= req.angle /\ req.angle < 150 * AngScale)
            <=> req.relationship = "opposite"
       /\ 150 * AngScale <= req.angle
            <=> req.relationship = "diametrically_opposite"
  /\ ComparisonDone /\ req.emb1 # ZeroVec /\ req.emb2 # ZeroVec =>
       /\ Dot(req.emb1, req.emb2) = 0
            => /\ req.comparison.angle_degrees = 90 * AngScale
               /\ req.comparison.relationship = "different"
       /\ req.emb2 = [i \in 1..Dim |-> -req.emb1[i]]
            => /\ req.comparison.angle_degrees = 180 * AngScale
               /\ req.comparison.relationship = "diametrically_opposite"

\* C19 witness: the angle of exactly 30 degrees is classified "similar".
C19_Witness ==
  /\ ClassifyDone
  /\ req.angle = 30 * AngScale
  /\ req.relationship = "similar"

\* C20: when at least one operand has zero norm the similarity is 0.0 (so the
\* cosine distance is 1 and the angle 90 degrees); the embedding of a blank
\* text is the zero vector and has similarity 0.0 to any non-zero vector.
C20_ZeroNormSimilarity ==
  ComparisonDone =>
    /\ Norm(req.emb1) = 0 \/ Norm(req.emb2) = 0 =>
         /\ req.comparison.cosine_similarity = 0
         /\ req.comparison.cosine_distance = SimScale
         /\ req.comparison.angle_degrees = 90 * AngScale
    /\ req.op = "compare_texts" /\ Strip(req.text1) = "" =>
         /\ req.emb1 = ZeroVec
         /\ req.emb2 # ZeroVec => req.comparison.cosine_similarity = 0

\* C20 witness: a blank text compared with a text whose embedding is not zero.
C20_Witness ==
  /\ req.op = "compare_texts"
  /\ req.text1 = " "
  /\ req.emb1 = ZeroVec
  /\ req.emb2 = Encode("x")
  /\ req.comparison.cosine_similarity = 0
  /\ req.comparison.angle_degrees = 90 * AngScale

----------------------------------------------------------------------------
(* Claims about the Distance Engine's operands, checked under SpecDistance *)

DistanceDone == req.op \in Operations

\* C21: every two-operand operation of the Distance Engine ends in an error,
\* and returns no value, when its operands have different dimensions,
\* whatever the operands (a zero vector, a single component).
C21_MismatchFails ==
  DistanceDone /\ Len(req.emb1) # Len(req.emb2) => req.error

----------------------------------------------------------------------------
(* Claims about the Contra Selector's results, checked under Spec *)

FeedReturned == FeedDone /\ ~req.error

\* C22: generate_contra_feed returns the Distance Engine's ranking unchanged:
\* the i-th returned video is the pool record at the i-th ranked index with
\* contra_score {distance, angle, method} of that rank and the requested
\* method; every returned video is a record of the request's pool, no pool
\* record is returned twice, and at most num_contra_videos are returned.
C22_RankingUnchanged ==
  FeedReturned =>
    /\ Len(req.value) = Len(contra_results)
    /\ Len(req.value) <= req.num_contra_videos
    /\ \A i \in 1..Len(req.value) :
         /\ contra_results[i][1] \in 1..Len(req.random_sample)
         /\ req.value[i].video_id
              = req.random_sample[contra_results[i][1]].video_id
         /\ req.value[i].embedding_text
              = req.random_sample[contra_results[i][1]].embedding_text
         /\ req.value[i].contra_score
              = [distance |-> contra_results[i][2],
                 angle    |-> contra_results[i][3],
                 method   |-> req.method]
    /\ \A i, j \in 1..Len(req.value) :
         contra_results[i][1] = contra_results[j][1] => i = j
    /\ NoDuplicateIds(req.value)

\* C22 witness: two videos are returned in the order of the ranking, which is
\* not the order of the pool.
C22_Witness ==
  /\ FeedReturned
  /\ Len(req.value) = 2
  /\ contra_results[1][1] = 2
  /\ req.value[1].video_id = req.random_sample[2].video_id
  /\ req.value[1].video_id # req.random_sample[1].video_id

\* C23: a pool build for target size N issues exactly floor(N/7) prefix
\* searches with max_results 10, then exactly 12 category searches with
\* max_results 20, floor(N/7) + 12 outbound searches in all, and no random-id
\* existence probe.
C23_SearchVolume ==
  RegenCase =>
    /\ req.searches = [i \in 1..(req.sample_size \div 7) |-> 10]
                        \o [i \in 1..12 |-> 20]
    /\ req.searchCalls = (req.sample_size \div 7) + 12
    /\ req.probes = 0

\* C23 witness: a pool build for size 7 issued one prefix search and twelve
\* category searches.
C23_Witness ==
  /\ SampleDone
  /\ RegenCase
  /\ req.sample_size = 7
  /\ req.searchCalls = 13
  /\ req.searches[1] = 10
  /\ req.searches[2] = 20

\* no input id resolved to metadata and the pool has at least one record
EmptyQueryCase ==
  /\ FeedDone
  /\ req.method = "diametric"
  /\ req.input_metadata = <<>>
  /\ req.random_sample # <<>>

\* C24: with an empty query set and a non-empty pool, generate_contra_feed
\* with method 'diametric' returns no result list: it ends with an error
\* raised by the scoring, after the pool was built, written to the sample
\* cache and embedded.
C24_EmptyQueriesFail ==
  EmptyQueryCase =>
    /\ req.error
    /\ req.value = <<>>
    /\ rankOp = "diametric" /\ rankError
    /\ query_embeddings = <<>>
    /\ Persisted(req.sample_size, req.random_sample)
    /\ \A i \in 1..Len(req.random_sample) :
         CacheHas(cache, cache_key(req.random_sample[i].video_id))

\* C24 witness: the only input id has no metadata; the pool of two videos is
\* built by this call, which ends with the error.
C24_Witness ==
  /\ EmptyQueryCase
  /\ RegenCase
  /\ req.input_video_ids = <<"m">>
  /\ Len(req.random_sample) = 2
  /\ req.sample_size \notin DOMAIN req.before.files
  /\ req.error

----------------------------------------------------------------------------
(* Claims about the key spaces of the Embedding Cache, checked under
   SpecEmbed *)

\* the vector VideoEmbedder.embed_text assigns to a text
EmbedderVector(text) == IF IsBlankText(text) THEN ZeroVec ELSE Encode(text)

\* C25 as stated: for every record passed to embed_videos the returned vector
\* is the one the Embedder assigns to the record's own embedding_text,
\* whatever calls came before.
C25_OwnTextVector ==
  \A i \in BatchIndices :
    lastEmbed.value[i] = EmbedderVector(lastEmbed.videos[i].embedding_text)

\* C26 as stated: embed_text(t) returns the Embedder's vector for t after any
\* earlier embed_videos calls, also for a text of the form 'video:<id>'.
C26_KeySpacesDisjoint ==
  lastEmbed.op = "embed_text" =>
    lastEmbed.value = EmbedderVector(lastEmbed.text)

----------------------------------------------------------------------------
(* Claims about the generator's embedding cache, checked under
   SpecGenerator *)

\* C27: cache entries are write-once and never evicted: whichever call runs,
\* every key cached before the step is cached after it with the same vector;
\* the cache is kept when a request returns.
C27_WriteOnce ==
  [][\A key \in DOMAIN cache :
       key \in DOMAIN cache' /\ cache'[key] = cache[key]]_vars

\* C27 witness: a generate_contra_feed call that began with cached
\* embeddings added entries to the cache and kept the ones it found.
C27_Witness ==
  /\ FeedDone
  /\ DOMAIN req.before.cache # {}
  /\ DOMAIN cache # DOMAIN req.before.cache
  /\ \A key \in DOMAIN req.before.cache :
       key \in DOMAIN cache /\ cache[key] = req.before.cache[key]

\* the ids of the input videos that resolved to metadata
ResolvedInputIds == IdsOf(req.input_metadata)

\* C28: with method 'diametric', min_distance > 0 and min_angle > 90 degrees,
\* generate_contra_feed never returns a video whose video_id is that of a
\* resolved input video, also when the pool holds that video: the candidate
\* has the embedding cached under the input's video-id key and fails a gate.
C28_InputNeverReturned ==
  (FeedReturned /\ req.method = "diametric"
     /\ min_distance > 0 /\ min_angle > 90 * AngScale) =>
    /\ IdsOf(req.value) \cap ResolvedInputIds = {}
    /\ \A i \in 1..Len(req.random_sample) :
         req.random_sample[i].video_id \in ResolvedInputIds =>
           /\ candidate_embeddings[i]
                = cache[cache_key(req.random_sample[i].video_id)]
           /\ \E q \in 1..Len(query_embeddings) :
                candidate_embeddings[i] = query_embeddings[q]
           /\ ~IsContra(query_embeddings, candidate_embeddings[i],
                        min_distance, min_angle)

\* C28 witness: the input video is in the pool with the zero vector cached
\* under its video-id key; the call returns without it.
C28_Witness ==
  /\ FeedReturned
  /\ ResolvedInputIds = {"a"}
  /\ "a" \in IdsOf(req.random_sample)
  /\ cache[cache_key("a")] = ZeroVec
  /\ min_distance = 1
  /\ "a" \notin IdsOf(req.value)

----------------------------------------------------------------------------
(* Claims about ties in the ranking, checked under SpecRank *)

\* the sort key of a result entry: (avg_angle, avg_distance) in
\* find_diametrically_opposite, the angle in find_opposite_to_centroid
TieKey(x) == IF rankOp = "diametric" THEN <<x[3], x[2]>> ELSE <<x[3]>>

\* the entry the ranking computes for candidate i
EntryOf(i) ==
  IF rankOp = "diametric"
    THEN <<i, MeanDistance(i), MeanAngle(i)>>
    ELSE <<i, cosine_distance(calculate_centroid(query_embeddings),
                              candidate_embeddings[i]),
              angle_between_vectors(calculate_centroid(query_embeddings),
                                    candidate_embeddings[i])>>

\* the candidates that are sorted
Sorted ==
  IF rankOp = "diametric" THEN Qualifiers ELSE 1..Len(candidate_embeddings)

RankingDone == DiametricDone \/ (CentroidDone /\ ~rankError)

\* C29: candidates with equal sort keys appear in ascending candidate-index
\* order, and when a tie straddles position k the lower-indexed candidates
\* are the ones kept.
C29_TiesByIndex ==
  RankingDone =>
    /\ \A m, n \in 1..Len(contra_results) :
         (m < n /\ TieKey(contra_results[m]) = TieKey(contra_results[n]))
           => contra_results[m][1] < contra_results[n][1]
    /\ \A i \in Sorted \ ResultIndices :
         \A n \in 1..Len(contra_results) :
           TieKey(contra_results[n]) = TieKey(EntryOf(i))
             => contra_results[n][1] < i

\* C29 witness: two candidates tie, k cuts between them, and the first one
\* is the one returned.
C29_Witness ==
  /\ RankingDone
  /\ Len(candidate_embeddings) = 2
  /\ k = 1
  /\ contra_results # <<>>
  /\ contra_results[1][1] = 1
  /\ 2 \in Sorted
  /\ TieKey(EntryOf(2)) = TieKey(contra_results[1])

----------------------------------------------------------------------------
(* Claims about degraded pools, checked under Spec *)

\* a pool was built while every search failed or the metadata request failed
DegradedBuild ==
  /\ RegenCase
  /\ req.world.pattern = "all" \/ ~req.world.metadata_ok

\* the artifact of sample_size is a pool without records
EmptyArtifact(fs, sample_size) ==
  sample_size \in DOMAIN fs /\ fs[sample_size] = <<>>

\* a degraded build writes the empty pool as the artifact of its size
DegradedPoolPersisted ==
  DegradedBuild =>
    /\ req.random_sample = <<>>
    /\ EmptyArtifact(files, req.sample_size)

\* a call with use_cache = true that finds an empty artifact returns the
\* empty pool with no outbound call for the pool and leaves the artifact
EmptyPoolServed ==
  (CacheHitCase /\ EmptyArtifact(req.before.files, req.sample_size)) =>
    /\ req.random_sample = <<>>
    /\ req.searchCalls = 0
    /\ req.metadataCalls = InputFetches
    /\ EmptyArtifact(files, req.sample_size)

\* an empty artifact stays as it is unless it is deleted or a call with
\* use_cache = false for its size rebuilds the pool
EmptyPoolKept ==
  \A sample_size \in Sizes :
    EmptyArtifact(files, sample_size) =>
      \/ EmptyArtifact(files', sample_size)
      \/ sample_size \notin DOMAIN files' /\ sample_size \in deleted'
      \/ /\ req'.op \in {"get_or_create_random_sample", "generate_contra_feed"}
         /\ req'.sample_size = sample_size
         /\ ~req'.use_cache

\* C30: a degraded pool is persisted and never repaired: a build during which
\* every search or the metadata request fails writes the empty pool as the
\* artifact of its size, and every later call with use_cache = true for that
\* size returns the empty pool with zero outbound calls, until the artifact
\* is deleted or a call with use_cache = false is made.
C30_DegradedPoolKept ==
  /\ [](DegradedPoolPersisted /\ EmptyPoolServed)
  /\ [][EmptyPoolKept]_vars

\* C30 witness: the provider had videos to find, yet the call with
\* use_cache = true returned the empty pool persisted by an earlier build,
\* with no search.
C30_Witness ==
  /\ FeedDone
  /\ CacheHitCase
  /\ EmptyArtifact(req.before.files, req.sample_size)
  /\ req.input_metadata # <<>>
  /\ req.random_sample = <<>>
  /\ req.searchCalls = 0
  /\ ~req.error

============================================================================
